---------------------------- MODULE Spec2Model ----------------------------
(***************************************************************************)
(* A model of misc/config_tools/launch_config/launch_cfg_gen.py: the       *)
(* virtual slot allocator (LaunchScript.VirtualBDFAllocator), the launch   *)
(* script accumulator (LaunchScript), the per-VM enumeration pass          *)
(* (generate_for_one_vm) and the orchestrator (main).                      *)
(*                                                                         *)
(* Python strings are sequences of one-character strings, so that the      *)
(* string operations of the code (formatting, padding, strip, substring    *)
(* and prefix tests) are computed as the code computes them.  The methods  *)
(* of LaunchScript are operators on a record st of the script's fields     *)
(* (and of the history kept about them), so that one step of a caller can  *)
(* make several calls; st.exc names the exception a call raised, and a     *)
(* call on a state with st.exc set does nothing (the exception is          *)
(* propagating).                                                           *)
(***************************************************************************)
EXTENDS Integers, Sequences, FiniteSets, TLC

VARIABLES
    free_slots,       \* VirtualBDFAllocator._free_slots
    issued,           \* history: the slots popped from the pool, in call order
    released,         \* history: the int slots remove_virtual_bdf was called with
    reissued,         \* history: the popped slots that had been popped or released before
    ret,              \* history: the last allocator call, its arguments, the pool before it, its outcome
    init_commands,    \* LaunchScript._init_commands
    dm_parameters,    \* LaunchScript._dm_parameters
    deinit_commands,  \* LaunchScript._deinit_commands
    vm_descriptors,   \* LaunchScript._vm_descriptors, as a sequence of <<name, value>>
    added,            \* history: per sequence, the texts the add_* calls appended or found present, in call order
    pt_log,           \* history: the add_passthru_device calls that returned
    dev_log,          \* history: the add_virtual_device and add_passthru_device calls
    exc,              \* the exception propagating out of the last call ("" when none)
    board,            \* the board document
    scenario,         \* the scenario document
    vm,               \* vm_scenario_etree of the script under construction
    pc,               \* the position of main / generate_for_one_vm
    idx,              \* the loop index at pc
    vm_i,             \* main: the index of post_vm in post_vms
    out_dir,          \* the file system at the output path: "absent", "dir", "file", "denied"
    written,          \* the launch scripts written, in order
    status,           \* main's outcome: "running", "return 0", "return 1", or the uncaught exception
    user_vm_id        \* main's argument user_vm_id

allocVars ==
    <<free_slots, issued, released, reissued, ret>>

scriptVars ==
    <<init_commands, dm_parameters, deinit_commands, vm_descriptors, added, pt_log, dev_log, exc>>

inputVars ==
    <<board, scenario, vm>>

mainVars ==
    <<pc, idx, vm_i, out_dir, written, status, user_vm_id>>

vars ==
    <<free_slots, issued, released, reissued, ret,
      init_commands, dm_parameters, deinit_commands, vm_descriptors, added, pt_log, dev_log, exc,
      board, scenario, vm, pc, idx, vm_i, out_dir, written, status, user_vm_id>>

-----------------------------------------------------------------------------
(* Bounds of the model *)

\* distinct slots remove_virtual_bdf is called with in one run of the allocator specification
MaxReleases ==
    2

\* LaunchScript method calls in one run of the script specification
MaxCalls ==
    3

-----------------------------------------------------------------------------
(* Python values *)

\* Python's None where a string is expected; no string equals it
None ==
    <<"<None>">>

\* an absent slot: what get_virtual_bdf yields when pop(0) raises IndexError
NoSlot ==
    -1

Range(s) ==
    {s[i] : i \in 1..Len(s)}

\* x in list
InSeq(x, s) ==
    \E i \in 1..Len(s) : s[i] = x

\* sub in s, for strings
Contains(sub, s) ==
    \E i \in 0..(Len(s) - Len(sub)) : SubSeq(s, i + 1, i + Len(sub)) = sub

\* s.startswith(prefix)
StartsWith(s, prefix) ==
    Len(prefix) <= Len(s) /\ SubSeq(s, 1, Len(prefix)) = prefix

\* truth value of an optional string: None and "" are false
Truthy(s) ==
    s # None /\ s # <<>>

\* list.remove(x): drops the first occurrence
RECURSIVE RemoveFirst(_, _)
RemoveFirst(s, x) ==
    IF s = <<>> THEN <<>>
    ELSE IF Head(s) = x THEN Tail(s)
    ELSE <<Head(s)>> \o RemoveFirst(Tail(s), x)

\* the character ` (a backquote cannot be written in a string of this language)
Backtick ==
    "<backquote>"

\* the characters str.strip() removes
Whitespace ==
    {" ", "\t", "\n", "\r"}

RECURSIVE LStrip(_)
LStrip(s) ==
    IF s # <<>> /\ Head(s) \in Whitespace THEN LStrip(Tail(s)) ELSE s

RECURSIVE RStrip(_)
RStrip(s) ==
    IF s # <<>> /\ s[Len(s)] \in Whitespace THEN RStrip(SubSeq(s, 1, Len(s) - 1)) ELSE s

\* s.strip()
Strip(s) ==
    RStrip(LStrip(s))

\* f"{s:<w>s}": s padded on the right with spaces to width w
PadTo(s, w) ==
    IF Len(s) >= w THEN s ELSE s \o [i \in 1..(w - Len(s)) |-> " "]

HexDigits ==
    <<"0", "1", "2", "3", "4", "5", "6", "7", "8", "9", "a", "b", "c", "d", "e", "f">>

\* str(n), n >= 0
RECURSIVE Dec(_)
Dec(n) ==
    IF n < 10 THEN <<HexDigits[n + 1]>> ELSE Dec(n \div 10) \o <<HexDigits[(n % 10) + 1]>>

\* f"{n:x}", n >= 0
RECURSIVE Hex(_)
Hex(n) ==
    IF n < 16 THEN <<HexDigits[n + 1]>> ELSE Hex(n \div 16) \o <<HexDigits[(n % 16) + 1]>>

\* f"{n:02x}"
Hex2(n) ==
    IF n < 16 THEN <<"0">> \o Hex(n) ELSE Hex(n)

\* sep.join(parts)
RECURSIVE Join(_, _)
Join(sep, parts) ==
    IF parts = <<>> THEN <<>>
    ELSE IF Len(parts) = 1 THEN parts[1]
    ELSE parts[1] \o sep \o Join(sep, Tail(parts))

(* String literals of the source *)

L_igd ==
    <<"i", "g", "d">>

L_0x030000 ==
    <<"0", "x", "0", "3", "0", "0", "0", "0">>

L_0x020000 ==
    <<"0", "x", "0", "2", "0", "0", "0", "0">>

L_0x0c0330 ==
    <<"0", "x", "0", "c", "0", "3", "3", "0">>

L_0x0200 ==
    <<"0", "x", "0", "2", "0", "0">>

L_enable_ptm ==
    <<"e", "n", "a", "b", "l", "e", "_", "p", "t", "m">>

L_d3hot_reset ==
    <<"d", "3", "h", "o", "t", "_", "r", "e", "s", "e", "t">>

L_y ==
    <<"y">>

L_Windows_OS ==
    <<"W", "i", "n", "d", "o", "w", "s", " ", "O", "S">>

L_virtio ==
    <<"v", "i", "r", "t", "i", "o">>

L_RTVM ==
    <<"R", "T", "V", "M">>

L_virtio_poll ==
    <<"-", "-", "v", "i", "r", "t", "i", "o", "_", "p", "o", "l", "l", " ", "1", "0", "0", "0", "0", "0", "0">>

L_add_virtual_device ==
    <<"a", "d", "d", "_", "v", "i", "r", "t", "u", "a", "l", "_", "d", "e", "v", "i", "c", "e">>

L_add_passthrough_device ==
    <<"a", "d", "d", "_", "p", "a", "s", "s", "t", "h", "r", "o", "u", "g", "h", "_", "d", "e", "v", "i", "c", "e">>

L_add_interrupt_storm_monitor ==
    <<"a", "d", "d", "_", "i", "n", "t", "e", "r", "r", "u", "p", "t", "_", "s", "t", "o", "r", "m", "_", "m", "o", "n", "i", "t", "o", "r">>

L_storm_args ==
    <<"1", "0", "0", "0", "0", " ", "1", "0", " ", "1", " ", "1", "0", "0">>

L_pci ==
    <<"p", "c", "i">>

L_0x ==
    <<"0", "x">>

L_0000_colon ==
    <<"0", "0", "0", "0", ":">>

L_probe_modules ==
    <<"p", "r", "o", "b", "e", "_", "m", "o", "d", "u", "l", "e", "s">>

L_mac_cmd ==
    <<"m", "a", "c", "=", "$", "(", "c", "a", "t", " ", "/", "s", "y", "s", "/", "c", "l", "a", "s", "s", "/", "n", "e", "t", "/", "e", "*", "/", "a", "d", "d", "r", "e", "s", "s", ")">>

L_windows ==
    <<"-", "-", "w", "i", "n", "d", "o", "w", "s">>

L_add_cpus ==
    <<"a", "d", "d", "_", "c", "p", "u", "s">>

L_uart ==
    <<"u", "a", "r", "t">>

L_virtio_blk ==
    <<"v", "i", "r", "t", "i", "o", "-", "b", "l", "k">>

L_STANDARD_VM ==
    <<"S", "T", "A", "N", "D", "A", "R", "D", "_", "V", "M">>

L_0_0 ==
    <<"0", ":", "0">>

L_1_0 ==
    <<"1", ":", "0">>

L_unmount_sda1 ==
    <<"u", "n", "m", "o", "u", "n", "t", "_", "p", "a", "r", "t", "i", "t", "i", "o", "n", " ", "$", "{", "d", "i", "r", "_", "s", "d", "a", "1", "}">>

L_0x20000 ==
    <<"0", "x", "2", "0", "0", "0", "0">>

L_0x1f0006 ==
    <<"0", "x", "1", "f", "0", "0", "0", "6">>

L_0x0 ==
    <<"0", "x", "0">>

L_0x140000 ==
    <<"0", "x", "1", "4", "0", "0", "0", "0">>

L_default_vm_name ==
    <<"A", "C", "R", "N", " ", "P", "o", "s", "t", "-", "L", "a", "u", "n", "c", "h", "e", "d", " ", "V", "M">>

L_vm_type ==
    <<"v", "m", "_", "t", "y", "p", "e">>

L_scheduler ==
    <<"s", "c", "h", "e", "d", "u", "l", "e", "r">>

L_None ==
    <<"N", "o", "n", "e">>

L_m_prefix ==
    <<"-", "m", " ">>

L_M ==
    <<"M">>

L_ovmf ==
    <<"-", "-", "o", "v", "m", "f", " ", "/", "u", "s", "r", "/", "s", "h", "a", "r", "e", "/", "a", "c", "r", "n", "/", "b", "i", "o", "s", "/", "O", "V", "M", "F", ".", "f", "d">>

L_lpc ==
    <<"l", "p", "c">>

L_com1 ==
    <<"-", "l", " ", "c", "o", "m", "1", ",", "s", "t", "d", "i", "o">>

L_hostbridge ==
    <<"h", "o", "s", "t", "b", "r", "i", "d", "g", "e">>

L_ivshmem ==
    <<"i", "v", "s", "h", "m", "e", "m">>

L_dm_prefix ==
    <<"d", "m", ":", "/">>

L_hv_prefix ==
    <<"h", "v", ":", "/">>

L_PCI ==
    <<"P", "C", "I">>

L_vuart_idx ==
    <<"v", "u", "a", "r", "t", "_", "i", "d", "x", ":">>

L_xhci ==
    <<"x", "h", "c", "i">>

L_virtio_input ==
    <<"v", "i", "r", "t", "i", "o", "-", "i", "n", "p", "u", "t">>

L_id_prefix ==
    <<",", "i", "d", ":">>

L_virtio_console ==
    <<"v", "i", "r", "t", "i", "o", "-", "c", "o", "n", "s", "o", "l", "e">>

L_Virtio_console ==
    <<"V", "i", "r", "t", "i", "o", " ", "c", "o", "n", "s", "o", "l", "e">>

L_file ==
    <<"f", "i", "l", "e">>

L_tty ==
    <<"t", "t", "y">>

L_sock_server ==
    <<"s", "o", "c", "k", " ", "s", "e", "r", "v", "e", "r">>

L_sock_client ==
    <<"s", "o", "c", "k", " ", "c", "l", "i", "e", "n", "t">>

L_sock_ ==
    <<"s", "o", "c", "k", " ">>

L_pty ==
    <<"p", "t", "y">>

L_stdio ==
    <<"s", "t", "d", "i", "o">>

L_file_port ==
    <<"f", "i", "l", "e", ":", "f", "i", "l", "e", "_", "p", "o", "r", "t", "=">>

L_tty_port ==
    <<"t", "t", "y", ":", "t", "t", "y", "_", "p", "o", "r", "t", "=">>

L_socket ==
    <<"s", "o", "c", "k", "e", "t", ":">>

L_port ==
    <<"_", "p", "o", "r", "t">>

L_vhost_framework ==
    <<"K", "e", "r", "n", "e", "l", " ", "b", "a", "s", "e", "d", " ", "(", "V", "i", "r", "t", "u", "a", "l", " ", "H", "o", "s", "t", ")">>

L_tap ==
    <<"t", "a", "p", "=">>

L_vhost ==
    <<"v", "h", "o", "s", "t">>

L_mac_seed ==
    <<"m", "a", "c", "_", "s", "e", "e", "d", "=", "$", "{", "m", "a", "c", ":", "0", ":", "1", "7", "}", "-">>

L_virtio_net ==
    <<"v", "i", "r", "t", "i", "o", "-", "n", "e", "t">>

L_dir_ ==
    <<"d", "i", "r", "_">>

L_mount_partition ==
    <<"m", "o", "u", "n", "t", "_", "p", "a", "r", "t", "i", "t", "i", "o", "n", " ">>

L_unmount_partition ==
    <<"u", "n", "m", "o", "u", "n", "t", "_", "p", "a", "r", "t", "i", "t", "i", "o", "n", " ">>

L_virtio_gpu ==
    <<"v", "i", "r", "t", "i", "o", "-", "g", "p", "u">>

L_Window ==
    <<"W", "i", "n", "d", "o", "w">>

L_Full_screen ==
    <<"F", "u", "l", "l", " ", "s", "c", "r", "e", "e", "n">>

L_geometry ==
    <<"g", "e", "o", "m", "e", "t", "r", "y", "=">>

L_geometry_fullscreen ==
    <<"g", "e", "o", "m", "e", "t", "r", "y", "=", "f", "u", "l", "l", "s", "c", "r", "e", "e", "n", ":">>

L_vhost_vsock ==
    <<"v", "h", "o", "s", "t", "-", "v", "s", "o", "c", "k">>

L_cid ==
    <<"c", "i", "d", "=">>

L_rtvm ==
    <<"-", "-", "r", "t", "v", "m">>

L_lapic_pt ==
    <<"-", "-", "l", "a", "p", "i", "c", "_", "p", "t">>

L_add_logger_settings ==
    <<"a", "d", "d", "_", "l", "o", "g", "g", "e", "r", "_", "s", "e", "t", "t", "i", "n", "g", "s">>

L_logger_args ==
    <<"c", "o", "n", "s", "o", "l", "e", "=", "4", " ", "k", "m", "s", "g", "=", "3", " ", "d", "i", "s", "k", "=", "5">>

L_ssram ==
    <<"-", "-", "s", "s", "r", "a", "m">>

-----------------------------------------------------------------------------
(* LaunchScript.VirtualBDFAllocator *)

\* range(3, 30): the first slot of the pool
FirstFreeSlot ==
    3

\* range(3, 30): the exclusive end of the pool
EndFreeSlot ==
    30

\* the fixed slot of a GPU
GpuSlot ==
    2

\* list(range(3, 31))
InitFreeSlots_Through30 ==
    [i \in 1..(EndFreeSlot + 1 - FirstFreeSlot) |-> FirstFreeSlot + i - 1]

\* list(range(2, 30))
InitFreeSlots_From2 ==
    [i \in 1..(EndFreeSlot - GpuSlot) |-> GpuSlot + i - 1]

\* __init__: self._free_slots = list(range(3, 30))
InitFreeSlots ==
    [i \in 1..(EndFreeSlot - FirstFreeSlot) |-> FirstFreeSlot + i - 1]

\* a board device node, as far as get_virtual_bdf and get_option read it: its class code
\* (None when the node has no class child); NoDevice is device_etree = None
NoDevice ==
    [exists |-> FALSE, class |-> None]

DeviceNode(class_code) ==
    [exists |-> TRUE, class |-> class_code]

\* the two shortcut tests of get_virtual_bdf
IsGpuRequest(device_etree, options) ==
    \/ device_etree.exists /\ device_etree.class = L_0x030000
    \/ Truthy(options) /\ Contains(L_igd, options)

\* get_virtual_bdf that returns slot 0 from an empty pool instead of raising
GetVirtualBdf_ZeroWhenEmpty(pool, device_etree, options) ==
    IF IsGpuRequest(device_etree, options) THEN [raised |-> FALSE, slot |-> GpuSlot, pool |-> pool]
    ELSE IF pool = <<>> THEN [raised |-> FALSE, slot |-> 0, pool |-> pool]
    ELSE [raised |-> FALSE, slot |-> Head(pool), pool |-> Tail(pool)]

\* get_virtual_bdf with the pop before the shortcut tests
GetVirtualBdf_GpuPops(pool, device_etree, options) ==
    IF pool = <<>> THEN [raised |-> TRUE, slot |-> NoSlot, pool |-> pool]
    ELSE IF IsGpuRequest(device_etree, options)
         THEN [raised |-> FALSE, slot |-> GpuSlot, pool |-> Tail(pool)]
         ELSE [raised |-> FALSE, slot |-> Head(pool), pool |-> Tail(pool)]

\* get_virtual_bdf run on a pool: the slot returned, the pool left, and whether pop(0)
\* raised IndexError (pop from empty list)
GetVirtualBdf(pool, device_etree, options) ==
    IF IsGpuRequest(device_etree, options)
    THEN [raised |-> FALSE, slot |-> GpuSlot, pool |-> pool]
    ELSE IF pool = <<>>
         THEN [raised |-> TRUE, slot |-> NoSlot, pool |-> pool]
         ELSE [raised |-> FALSE, slot |-> Head(pool), pool |-> Tail(pool)]

\* a slot argument: an int, a string (add_virtual_device is called with "1:0" and "0:0"), or None
IntV(n) ==
    [t |-> "int", n |-> n, s |-> None]

StrV(s) ==
    [t |-> "str", n |-> NoSlot, s |-> s]

NoneV ==
    [t |-> "none", n |-> NoSlot, s |-> None]

\* remove_virtual_bdf that leaves the pool alone
RemoveVirtualBdf_Noop(pool, slot) ==
    pool

\* remove_virtual_bdf on a pool of ints: a string is never `in` it
RemoveVirtualBdf(pool, slot) ==
    IF slot.t = "int" /\ InSeq(slot.n, pool) THEN RemoveFirst(pool, slot.n) ELSE pool

\* the record of one get_virtual_bdf call
AllocCall(device_etree, options, before, r, prev) ==
    [op      |-> IF r.raised THEN "raise"
                 ELSE IF IsGpuRequest(device_etree, options) THEN "gpu" ELSE "pool",
     device  |-> device_etree,
     options |-> options,
     slot    |-> r.slot,
     before  |-> before,
     repeat  |-> prev.op = "gpu" /\ prev.device = device_etree /\ prev.options = options]

NoCall ==
    [op |-> "none", device |-> NoDevice, options |-> None, slot |-> NoSlot,
     before |-> <<>>, repeat |-> FALSE]

\* the record of one remove_virtual_bdf call
ReleaseCall(slot, before) ==
    [op |-> "release", device |-> NoDevice, options |-> None, slot |-> slot.n,
     before |-> before, repeat |-> FALSE]

\* self._vbdf_allocator.get_virtual_bdf(device_etree, options) on the script state st
Allocate(st, device_etree, options) ==
    IF st.exc # "" THEN st
    ELSE LET r == GetVirtualBdf(st.free_slots, device_etree, options)
             c == AllocCall(device_etree, options, st.free_slots, r, st.ret)
         IN  [st EXCEPT !.free_slots = r.pool,
                        !.issued = IF c.op = "pool" THEN Append(@, r.slot) ELSE @,
                        !.reissued = IF c.op = "pool"
                                        /\ (InSeq(r.slot, st.issued) \/ r.slot \in st.released)
                                     THEN @ \cup {r.slot} ELSE @,
                        !.ret = c,
                        !.exc = IF r.raised THEN "IndexError" ELSE ""]

\* self._vbdf_allocator.remove_virtual_bdf(slot) on the script state st
Release(st, slot) ==
    IF st.exc # "" THEN st
    ELSE [st EXCEPT !.free_slots = RemoveVirtualBdf(@, slot),
                    !.released = IF slot.t = "int" THEN @ \cup {slot.n} ELSE @,
                    !.ret = ReleaseCall(slot, st.free_slots)]

-----------------------------------------------------------------------------
(* LaunchScript *)

\* the fields of the script, with the history kept about them, as one record
Cur ==
    [free_slots |-> free_slots, issued |-> issued, released |-> released,
     reissued |-> reissued, ret |-> ret,
     init_commands |-> init_commands, dm_parameters |-> dm_parameters,
     deinit_commands |-> deinit_commands, vm_descriptors |-> vm_descriptors,
     added |-> added, pt_log |-> pt_log, dev_log |-> dev_log, exc |-> exc]

\* the step's effect on the script: its fields become those of st
Commit(st) ==
    /\ free_slots' = st.free_slots
    /\ issued' = st.issued
    /\ released' = st.released
    /\ reissued' = st.reissued
    /\ ret' = st.ret
    /\ init_commands' = st.init_commands
    /\ dm_parameters' = st.dm_parameters
    /\ deinit_commands' = st.deinit_commands
    /\ vm_descriptors' = st.vm_descriptors
    /\ added' = st.added
    /\ pt_log' = st.pt_log
    /\ dev_log' = st.dev_log
    /\ exc' = st.exc

\* the script's fields are those of st
ScriptIs(st) ==
    /\ free_slots = st.free_slots
    /\ issued = st.issued
    /\ released = st.released
    /\ reissued = st.reissued
    /\ ret = st.ret
    /\ init_commands = st.init_commands
    /\ dm_parameters = st.dm_parameters
    /\ deinit_commands = st.deinit_commands
    /\ vm_descriptors = st.vm_descriptors
    /\ added = st.added
    /\ pt_log = st.pt_log
    /\ dev_log = st.dev_log
    /\ exc = st.exc

NoAdd ==
    [list |-> "none", text |-> None, before |-> <<>>]

\* LaunchScript.__init__
NewScript ==
    [free_slots |-> InitFreeSlots, issued |-> <<>>, released |-> {}, reissued |-> {},
     ret |-> NoCall,
     init_commands |-> <<>>, dm_parameters |-> <<>>, deinit_commands |-> <<>>,
     vm_descriptors |-> <<>>,
     added |-> [init |-> <<>>, dm |-> <<>>, deinit |-> <<>>, last |-> NoAdd],
     pt_log |-> <<>>, dev_log |-> <<>>, exc |-> ""]

\* add_vm_descriptor: self._vm_descriptors[name] = value (a dict keeps the place of a key's first write)
AddVmDescriptor(st, name, value) ==
    IF st.exc # "" THEN st
    ELSE IF \E i \in 1..Len(st.vm_descriptors) : st.vm_descriptors[i][1] = name
         THEN [st EXCEPT !.vm_descriptors =
                   [i \in 1..Len(@) |-> IF @[i][1] = name THEN <<name, value>> ELSE @[i]]]
         ELSE [st EXCEPT !.vm_descriptors = Append(@, <<name, value>>)]

\* add_init_command that appends without the membership test
AddInitCommand_NoTest(st, command) ==
    IF st.exc # "" THEN st
    ELSE [st EXCEPT !.init_commands = Append(@, command),
                    !.added.init = Append(@, command),
                    !.added.last = [list |-> "init", text |-> command, before |-> st.init_commands]]

\* add_init_command
AddInitCommand(st, command) ==
    IF st.exc # "" THEN st
    ELSE [st EXCEPT !.init_commands = IF InSeq(command, @) THEN @ ELSE Append(@, command),
                    !.added.init = Append(@, command),
                    !.added.last = [list |-> "init", text |-> command, before |-> st.init_commands]]

\* add_deinit_command
AddDeinitCommand(st, command) ==
    IF st.exc # "" THEN st
    ELSE [st EXCEPT !.deinit_commands = IF InSeq(command, @) THEN @ ELSE Append(@, command),
                    !.added.deinit = Append(@, command),
                    !.added.last = [list |-> "deinit", text |-> command, before |-> st.deinit_commands]]

\* add_plain_dm_parameter that moves a parameter already present to the end
AddPlainDmParameter_MoveToEnd(st, opt) ==
    IF st.exc # "" THEN st
    ELSE [st EXCEPT !.dm_parameters = Append(SelectSeq(@, LAMBDA p : p # opt), opt),
                    !.added.dm = Append(@, opt),
                    !.added.last = [list |-> "dm", text |-> opt, before |-> st.dm_parameters]]

\* add_plain_dm_parameter: full_opt = f"{opt}" is opt itself for a string
AddPlainDmParameter(st, opt) ==
    IF st.exc # "" THEN st
    ELSE [st EXCEPT !.dm_parameters = IF InSeq(opt, @) THEN @ ELSE Append(@, opt),
                    !.added.dm = Append(@, opt),
                    !.added.last = [list |-> "dm", text |-> opt, before |-> st.dm_parameters]]

\* the width cmd is padded to in f"{cmd:40s} {opt}"
CmdWidth ==
    40

\* add_dynamic_dm_parameter: full_opt = f"`{full_cmd}`", full_cmd = f"{cmd:40s} {opt}".strip()
DynamicText(cmd, opt) ==
    <<Backtick>> \o Strip(PadTo(cmd, CmdWidth) \o <<" ">> \o opt) \o <<Backtick>>

\* add_dynamic_dm_parameter
AddDynamicDmParameter(st, cmd, opt) ==
    IF st.exc # "" THEN st
    ELSE LET full_opt == DynamicText(cmd, opt)
         IN  [st EXCEPT !.dm_parameters = IF InSeq(full_opt, @) THEN @ ELSE Append(@, full_opt),
                        !.added.dm = Append(@, full_opt),
                        !.added.last = [list |-> "dm", text |-> full_opt, before |-> st.dm_parameters]]

\* f"{vbdf}" of a slot argument
FormatV(v) ==
    IF v.t = "int" THEN Dec(v.n) ELSE v.s

\* the record of one add_virtual_device or add_passthru_device call: the slot argument, the
\* slot the parameter carries (none when get_virtual_bdf raised), whether the slot came from
\* the pool, and the length of the parameter list before and after the call
DeviceCall(method, declared, slot, st0, st1) ==
    [method |-> method, declared |-> declared, slot |-> slot, ok |-> st1.exc = "",
     drew |-> st1.ret.op = "pool" /\ Len(st1.issued) > Len(st0.issued),
     before |-> Len(st0.dm_parameters), after |-> Len(st1.dm_parameters)]

\* add_virtual_device(kind, vbdf, options)
AddVirtualDevice(st, kind, vbdf, options) ==
    LET s1 == IF Contains(L_virtio, kind) /\ vm.vm_type = L_RTVM
              THEN AddPlainDmParameter(st, L_virtio_poll) ELSE st
        s2 == IF vbdf.t = "none" THEN Allocate(s1, NoDevice, None) ELSE Release(s1, vbdf)
        v  == IF vbdf.t = "none" THEN IntV(s2.ret.slot) ELSE vbdf
        s3 == AddDynamicDmParameter(s2, L_add_virtual_device,
                                    FormatV(v) \o <<" ">> \o kind \o <<" ">> \o options)
    IN  IF st.exc # "" THEN st
        ELSE IF s2.exc # ""
        THEN [s2 EXCEPT !.dev_log = Append(@, DeviceCall("virtual", vbdf, NoneV, st, s2))]
        ELSE [s3 EXCEPT !.dev_log = Append(@, DeviceCall("virtual", vbdf, v, st, s3))]

\* PassThruDeviceOptions.passthru_device_options, in the dict's order: class-code prefix,
\* the element of the VM's scenario and the text it must have, and the option tokens
passthru_device_options ==
    << [prefix |-> L_0x0200, element |-> "PTM", text |-> L_y, tokens |-> <<L_enable_ptm>>],
       [prefix |-> L_0x0c0330, element |-> "os_type", text |-> L_Windows_OS,
        tokens |-> <<L_d3hot_reset>>] >>

\* vm_scenario_etree.xpath(".//<element>[text()='<text>']") is not empty
XPathHolds(vm_scenario_etree, element, text) ==
    vm_scenario_etree[element] = text

RECURSIVE MatchedTokens(_, _, _)
MatchedTokens(rules, class_code, vm_scenario_etree) ==
    IF rules = <<>> THEN <<>>
    ELSE (IF StartsWith(class_code, rules[1].prefix)
             /\ XPathHolds(vm_scenario_etree, rules[1].element, rules[1].text)
          THEN rules[1].tokens ELSE <<>>)
         \o MatchedTokens(Tail(rules), class_code, vm_scenario_etree)

\* get_option that does not evaluate the rules' predicates
GetOption_IgnoresPredicate(device_etree, vm_scenario_etree) ==
    IF device_etree.exists
    THEN LET class_code == IF device_etree.class = None THEN <<>> ELSE device_etree.class
             hit == SelectSeq(passthru_device_options, LAMBDA r : StartsWith(class_code, r.prefix))
         IN  Join(<<",">>, [i \in 1..Len(hit) |-> hit[i].tokens[1]])
    ELSE <<>>

\* PassThruDeviceOptions.get_option
GetOption(device_etree, vm_scenario_etree) ==
    IF device_etree.exists
    THEN LET class_code == IF device_etree.class = None THEN <<>> ELSE device_etree.class
         IN  Join(<<",">>, MatchedTokens(passthru_device_options, class_code, vm_scenario_etree))
    ELSE <<>>

\* eval_xpath(self._board_etree,
\*   f"//bus[@type='pci' and @address='0x{bus:x}']/device[@address='0x{(dev << 16) | fun:x}']"):
\* the first such device of the board, or None
BoardDevice(bus, dev, fun) ==
    LET hit(d) == /\ d.bus_type = L_pci
                  /\ d.bus_address = L_0x \o Hex(bus)
                  /\ d.address = L_0x \o Hex(dev * 65536 + fun)
        found == {i \in 1..Len(board.pci) : hit(board.pci[i])}
    IN  IF found = {} THEN NoDevice
        ELSE DeviceNode(board.pci[CHOOSE i \in found : \A j \in found : i <= j].class)

\* the opt of a passthrough device's parameter
PassthruOpt(vbdf, bus, dev, fun, options) ==
    Dec(vbdf) \o <<" ">> \o L_0000_colon \o Hex2(bus) \o <<":">> \o Hex2(dev) \o <<".">> \o Dec(fun)
        \o <<" ">> \o options

\* add_passthru_device that adds the storm monitor for every device
AddPassthruDevice_StormAlways(st, bus, dev, fun, options) ==
    LET device_etree == BoardDevice(bus, dev, fun)
        opts == IF ~Truthy(options) THEN GetOption(device_etree, vm) ELSE options
        s1 == Allocate(st, device_etree, opts)
        vbdf == s1.ret.slot
        s2 == AddDynamicDmParameter(s1, L_add_passthrough_device,
                                    PassthruOpt(vbdf, bus, dev, fun, opts))
        s3 == AddDynamicDmParameter(s2, L_add_interrupt_storm_monitor, L_storm_args)
    IN  IF st.exc # "" THEN st
        ELSE IF s1.exc # ""
        THEN [s1 EXCEPT !.dev_log = Append(@, DeviceCall("passthru", NoneV, NoneV, st, s1))]
        ELSE [s3 EXCEPT !.dev_log = Append(@, DeviceCall("passthru", NoneV, IntV(vbdf), st, s3)),
                        !.pt_log = Append(@,
                 [slot |-> vbdf, bus |-> bus, dev |-> dev, fun |-> fun, options |-> opts,
                  param |-> DynamicText(L_add_passthrough_device, PassthruOpt(vbdf, bus, dev, fun, opts)),
                  before |-> Len(st.dm_parameters),
                  after |-> Len(s3.dm_parameters)])]

\* add_passthru_device(bus, dev, fun, options)
AddPassthruDevice(st, bus, dev, fun, options) ==
    LET device_etree == BoardDevice(bus, dev, fun)
        opts == IF ~Truthy(options) THEN GetOption(device_etree, vm) ELSE options
        s1 == Allocate(st, device_etree, opts)
        vbdf == s1.ret.slot
        s2 == AddDynamicDmParameter(s1, L_add_passthrough_device,
                                    PassthruOpt(vbdf, bus, dev, fun, opts))
        s3 == IF vbdf # GpuSlot
              THEN AddDynamicDmParameter(s2, L_add_interrupt_storm_monitor, L_storm_args)
              ELSE s2
    IN  IF st.exc # "" THEN st
        ELSE IF s1.exc # ""
        THEN [s1 EXCEPT !.dev_log = Append(@, DeviceCall("passthru", NoneV, NoneV, st, s1))]
        ELSE [s3 EXCEPT !.dev_log = Append(@, DeviceCall("passthru", NoneV, IntV(vbdf), st, s3)),
                        !.pt_log = Append(@,
                 [slot |-> vbdf, bus |-> bus, dev |-> dev, fun |-> fun, options |-> opts,
                  param |-> DynamicText(L_add_passthrough_device, PassthruOpt(vbdf, bus, dev, fun, opts)),
                  before |-> Len(st.dm_parameters),
                  after |-> Len(s3.dm_parameters)])]

-----------------------------------------------------------------------------
(* Inputs: the board and scenario documents, as far as the code reads them *)

\* a board with a VGA controller at 00:02.0, an Ethernet controller at 00:1f.6 and a USB
\* xHCI controller at 00:14.0
PciBoard ==
    << [bus_type |-> L_pci, bus_address |-> L_0x0, address |-> L_0x20000, class |-> L_0x030000],
       [bus_type |-> L_pci, bus_address |-> L_0x0, address |-> L_0x1f0006, class |-> L_0x020000],
       [bus_type |-> L_pci, bus_address |-> L_0x0, address |-> L_0x140000, class |-> L_0x0c0330] >>

\* a post-launched VM of the scenario with nothing configured: every text the code reads is absent
BaseVm ==
    [id |-> <<"1">>, name |-> None, os_type |-> None, vm_type |-> None, PTM |-> None,
     cpu_affinity |-> <<>>, memory |-> None, vbootloader |-> None, vuart0 |-> None,
     console_vuart |-> None, lapic_passthrough |-> None,
     ivshmem_dm |-> <<>>, ivshmem_hv |-> <<>>, vuart_connections |-> <<>>,
     usb_xhci |-> <<>>, virtio_input |-> <<>>, virtio_console |-> <<>>,
     virtio_network |-> <<>>, virtio_block |-> <<>>, virtio_gpu |-> <<>>, vsock |-> <<>>,
     pci_devs |-> <<>>]

\* a scenario without VMs
NoScenario ==
    [service_vm_id |-> None, service_vm_name |-> None, scheduler |-> None,
     pre_cpus |-> <<>>, post_vms |-> <<>>]

\* the passthrough devices tried, as <<bus, dev, fun>>: the VGA controller, the Ethernet
\* controller, and a device the board does not list
PassthruInputs ==
    {<<0, 2, 0>>, <<0, 31, 6>>, <<1, 0, 0>>}

-----------------------------------------------------------------------------
(* Specification Spec: one allocator under arbitrary get_virtual_bdf and    *)
(* remove_virtual_bdf calls                                                 *)

\* the device arguments tried: no device, a VGA controller, an Ethernet controller
DeviceInputs ==
    {NoDevice, DeviceNode(L_0x030000), DeviceNode(L_0x020000)}

\* the options arguments tried: None, "igd", "enable_ptm"
OptionInputs ==
    {None, L_igd, L_enable_ptm}

\* the slots remove_virtual_bdf is tried with: reserved ones, both ends of the pool, and 30
ReleaseInputs ==
    {0, 2, 3, 5, 29, 30, 31}

\* main is not running
MainIdle ==
    /\ pc = "idle"
    /\ idx = 0
    /\ vm_i = 0
    /\ out_dir = "absent"
    /\ written = <<>>
    /\ status = "running"
    /\ user_vm_id = 0

Init ==
    /\ ScriptIs(NewScript)
    /\ board = [cpus |-> <<>>, pci |-> PciBoard]
    /\ scenario = NoScenario
    /\ vm = BaseVm
    /\ MainIdle

GetVirtualBdfCall ==
    /\ \E d \in DeviceInputs, o \in OptionInputs :
          Commit(Allocate([Cur EXCEPT !.exc = ""], d, o))
    /\ UNCHANGED <<inputVars, mainVars>>

RemoveVirtualBdfCall ==
    /\ \E s \in ReleaseInputs :
          /\ Cardinality(released \cup {s}) <= MaxReleases
          /\ Commit(Release([Cur EXCEPT !.exc = ""], IntV(s)))
    /\ UNCHANGED <<inputVars, mainVars>>

Next ==
    \/ GetVirtualBdfCall
    \/ RemoveVirtualBdfCall

Spec ==
    Init /\ [][Next]_vars

-----------------------------------------------------------------------------
(* Specification SpecScript: one LaunchScript under arbitrary calls of its  *)
(* add_* methods, MaxCalls of them                                          *)

CommandInputs ==
    {L_probe_modules, L_mac_cmd}

PlainInputs ==
    {L_windows, L_virtio_poll}

\* the opt arguments tried with cmd = "add_cpus": "", "1" and "1 "
DynamicOptInputs ==
    {<<>>, <<"1">>, <<"1", " ">>}

KindInputs ==
    {L_uart, L_virtio_blk}

\* the vbdf arguments tried: None, the int 3 and the string "0:0"
VbdfInputs ==
    {NoneV, IntV(3), StrV(L_0_0)}

ScriptInit ==
    /\ ScriptIs(NewScript)
    /\ board = [cpus |-> <<>>, pci |-> PciBoard]
    /\ scenario = NoScenario
    /\ \E t \in {L_RTVM, L_STANDARD_VM}, p \in {L_y, None} :
          vm = [BaseVm EXCEPT !.vm_type = t, !.PTM = p]
    /\ MainIdle

\* one more call is made; the caller has handled the exception of the one before
Call(st) ==
    /\ idx < MaxCalls
    /\ idx' = idx + 1
    /\ Commit(st)
    /\ UNCHANGED <<inputVars, pc, vm_i, out_dir, written, status, user_vm_id>>

Script ==
    [Cur EXCEPT !.exc = ""]

AddInitCommandCall ==
    \E c \in CommandInputs : Call(AddInitCommand(Script, c))

AddDeinitCommandCall ==
    \E c \in CommandInputs : Call(AddDeinitCommand(Script, c))

AddPlainDmParameterCall ==
    \E o \in PlainInputs : Call(AddPlainDmParameter(Script, o))

AddDynamicDmParameterCall ==
    \E o \in DynamicOptInputs : Call(AddDynamicDmParameter(Script, L_add_cpus, o))

AddVirtualDeviceCall ==
    \E k \in KindInputs, v \in VbdfInputs : Call(AddVirtualDevice(Script, k, v, <<>>))

AddPassthruDeviceCall ==
    \E d \in PassthruInputs : Call(AddPassthruDevice(Script, d[1], d[2], d[3], <<>>))

ScriptNext ==
    \/ AddInitCommandCall
    \/ AddDeinitCommandCall
    \/ AddPlainDmParameterCall
    \/ AddDynamicDmParameterCall
    \/ AddVirtualDeviceCall
    \/ AddPassthruDeviceCall

SpecScript ==
    ScriptInit /\ [][ScriptNext]_vars

-----------------------------------------------------------------------------
(* Helpers of generate_for_one_vm and main *)

\* str(x) of an optional text inside an f-string: None prints as "None"
Str(x) ==
    IF x = None THEN L_None ELSE x

\* the index of the first c in s, 0 when there is none
IndexOf(s, c) ==
    IF \E i \in 1..Len(s) : s[i] = c
    THEN CHOOSE i \in 1..Len(s) : s[i] = c /\ \A j \in 1..(i - 1) : s[j] # c
    ELSE 0

\* the index of the last c in s, 0 when there is none
LastIndexOf(s, c) ==
    IF \E i \in 1..Len(s) : s[i] = c
    THEN CHOOSE i \in 1..Len(s) : s[i] = c /\ \A j \in (i + 1)..Len(s) : s[j] # c
    ELSE 0

\* s.split(c), for a one-character separator
RECURSIVE Split(_, _)
Split(s, c) ==
    LET i == IndexOf(s, c)
    IN  IF i = 0 THEN <<s>>
        ELSE <<SubSeq(s, 1, i - 1)>> \o Split(SubSeq(s, i + 1, Len(s)), c)

\* s.split(c, maxsplit=1)
SplitOnce(s, c) ==
    LET i == IndexOf(s, c)
    IN  IF i = 0 THEN <<s>> ELSE <<SubSeq(s, 1, i - 1), SubSeq(s, i + 1, Len(s))>>

\* os.path.basename(p)
Basename(p) ==
    SubSeq(p, LastIndexOf(p, "/") + 1, Len(p))

\* os.path.join(a, b): an absolute b discards a
PathJoin(a, b) ==
    IF b # <<>> /\ b[1] = "/" THEN b
    ELSE IF a = <<>> \/ a[Len(a)] = "/" THEN a \o b
    ELSE a \o <<"/">> \o b

\* s.replace(old, ""), for an old that occurs at most at the start of s
RemovePrefix(s, old) ==
    IF StartsWith(s, old) THEN SubSeq(s, Len(old) + 1, Len(s)) ELSE s

\* the value of a hex digit (either case), -1 for another character
HexValue(c) ==
    IF \E i \in 1..16 : HexDigits[i] = c THEN (CHOOSE i \in 1..16 : HexDigits[i] = c) - 1
    ELSE IF c = "A" THEN 10 ELSE IF c = "B" THEN 11 ELSE IF c = "C" THEN 12
    ELSE IF c = "D" THEN 13 ELSE IF c = "E" THEN 14 ELSE IF c = "F" THEN 15
    ELSE -1

RECURSIVE HexNumber(_)
HexNumber(s) ==
    IF Len(s) = 1 THEN HexValue(s[1])
    ELSE HexNumber(SubSeq(s, 1, Len(s) - 1)) * 16 + HexValue(s[Len(s)])

\* what stands for the ValueError of int()
BadInt ==
    -2

\* int(s, 16): surrounding whitespace and a 0x prefix are accepted
IntBase16(s) ==
    LET t == Strip(s)
        d == IF StartsWith(t, L_0x) \/ StartsWith(t, <<"0", "X">>) THEN SubSeq(t, 3, Len(t)) ELSE t
    IN  IF d = <<>> \/ \E i \in 1..Len(d) : HexValue(d[i]) < 0 THEN BadInt ELSE HexNumber(d)

\* int(s) of a decimal text
IntBase10(s) ==
    LET t == Strip(s)
    IN  IF t = <<>> \/ \E i \in 1..Len(t) : HexValue(t[i]) < 0 \/ HexValue(t[i]) > 9 THEN BadInt
        ELSE LET F[i \in 0..Len(t)] == IF i = 0 THEN 0 ELSE F[i - 1] * 10 + HexValue(t[i])
             IN  F[Len(t)]

\* sorted(xs) of ints
RECURSIVE Sorted(_)
Sorted(xs) ==
    IF xs = <<>> THEN <<>>
    ELSE LET k == CHOOSE i \in 1..Len(xs) : \A j \in 1..Len(xs) : xs[i] <= xs[j]
         IN  <<xs[k]>> \o Sorted(SubSeq(xs, 1, k - 1) \o SubSeq(xs, k + 1, Len(xs)))

\* a set of texts as a list, in some order (the iteration order of a Python set)
RECURSIVE ListOfSet(_)
ListOfSet(S) ==
    IF S = {} THEN <<>>
    ELSE LET x == CHOOSE y \in S : TRUE IN <<x>> \o ListOfSet(S \ {x})

\* cpu_id_to_lapic_id: the apic_id of the first thread of the board with this cpu_id, read
\* in base 16; None (here -1) with a warning when the board has no such thread
NoLapicId ==
    -1

cpu_id_to_lapic_id(cpu) ==
    LET found == {i \in 1..Len(board.cpus) : board.cpus[i].cpu_id = cpu}
    IN  IF found = {} THEN NoLapicId
        ELSE IntBase16(board.cpus[CHOOSE i \in found : \A j \in found : i <= j].apic_id)

\* lapic_ids that drops every falsy id
LapicIds_DropsZero(cpus) ==
    SelectSeq([i \in 1..Len(cpus) |-> cpu_id_to_lapic_id(cpus[i])], LAMBDA x : x # NoLapicId /\ x # 0)

\* lapic_ids = [x for x in [cpu_id_to_lapic_id(...) for cpu_id in cpus] if x != None]
LapicIds(cpus) ==
    SelectSeq([i \in 1..Len(cpus) |-> cpu_id_to_lapic_id(cpus[i])], LAMBDA x : x # NoLapicId)

\* get_slot_by_vbdf: int(vbdf.split(":")[1].split(".")[0], 16), None for None;
\* exc names the exception raised for a text without ":" or without a hex number there
get_slot_by_vbdf(vbdf) ==
    IF vbdf = None THEN [exc |-> "", slot |-> NoneV]
    ELSE LET parts == Split(vbdf, ":")
         IN  IF Len(parts) < 2 THEN [exc |-> "IndexError", slot |-> NoneV]
             ELSE LET n == IntBase16(Split(parts[2], ".")[1])
                  IN  IF n < 0 THEN [exc |-> "ValueError", slot |-> NoneV]
                      ELSE [exc |-> "", slot |-> IntV(n)]

\* bdf_regex.match(text) for "([0-9a-f]{2}):([0-1][0-9a-f]).([0-7])": the text starts with
\* two lower-case hex digits, a colon, 0 or 1, a lower-case hex digit, any character but a
\* newline, and a digit 0 to 7
LowerHex(c) ==
    \E i \in 1..16 : HexDigits[i] = c

BdfMatches(text) ==
    /\ Len(text) >= 7
    /\ LowerHex(text[1]) /\ LowerHex(text[2])
    /\ text[3] = ":"
    /\ text[4] \in {"0", "1"}
    /\ LowerHex(text[5])
    /\ text[6] # "\n"
    /\ text[7] \in {"0", "1", "2", "3", "4", "5", "6", "7"}

-----------------------------------------------------------------------------
(* generate_for_one_vm, section by section; vm is vm_scenario_etree.  A loop *)
(* of the function is an operator on the script state and one entry.         *)

\* vm_name = eval_xpath(vm_scenario_etree, "./name/text()", "ACRN Post-Launched VM")
VmName ==
    IF vm.name = None THEN L_default_vm_name ELSE vm.name

Quoted(t) ==
    <<"'">> \o t \o <<"'">>

\* the script, probe_modules, --windows and the VM descriptors
GenStart ==
    LET s1 == AddInitCommand(NewScript, L_probe_modules)
        s2 == IF vm.os_type = L_Windows_OS THEN AddPlainDmParameter(s1, L_windows) ELSE s1
        s3 == AddVmDescriptor(s2, L_vm_type,
                              Quoted(IF vm.vm_type = None THEN L_STANDARD_VM ELSE vm.vm_type))
    IN  AddVmDescriptor(s3, L_scheduler, Quoted(Str(scenario.scheduler)))

\* cpus = set(...pcpu_id[text() != '']/text()), as a list
AffinityCpus ==
    ListOfSet({c \in Range(vm.cpu_affinity) : c # <<>>})

\* the add_cpus parameter
GenCpus(st) ==
    LET cpus == AffinityCpus
        lapic_ids == LapicIds(cpus)
        sorted == Sorted(lapic_ids)
    IN  IF \E i \in 1..Len(cpus) : cpu_id_to_lapic_id(cpus[i]) = BadInt
        THEN [st EXCEPT !.exc = "ValueError"]
        ELSE IF lapic_ids # <<>>
        THEN AddDynamicDmParameter(st, L_add_cpus,
                                   Join(<<" ">>, [i \in 1..Len(sorted) |-> Dec(sorted[i])]))
        ELSE st

\* eval_xpath(vm_scenario_etree, "//SSRAM_ENABLED") == "y": eval_xpath yields an element
\* (or None), which never equals a str
SsramEnabledIsY ==
    FALSE

\* -m, --ssram and --ovmf
GenMemory(st) ==
    LET s1 == AddPlainDmParameter(st, L_m_prefix \o Str(vm.memory) \o L_M)
        s2 == IF SsramEnabledIsY /\ vm.vm_type = L_RTVM
              THEN AddPlainDmParameter(s1, L_ssram) ELSE s1
    IN  IF vm.vbootloader = L_y THEN AddPlainDmParameter(s2, L_ovmf) ELSE s2

\* lpc at "1:0", -l com1,stdio, hostbridge at "0:0"
GenPlatform(st) ==
    LET s1 == IF vm.vm_type # L_RTVM THEN AddVirtualDevice(st, L_lpc, StrV(L_1_0), <<>>) ELSE st
        s2 == IF vm.vuart0 = L_y THEN AddPlainDmParameter(s1, L_com1) ELSE s1
    IN  AddVirtualDevice(s2, L_hostbridge, StrV(L_0_0), <<>>)

\* add_virtual_device at the slot of a declared vbdf
AddAtDeclared(st, kind, vbdf, options) ==
    LET g == get_slot_by_vbdf(vbdf)
    IN  IF st.exc # "" THEN st
        ELSE IF g.exc # "" THEN [st EXCEPT !.exc = g.exc]
        ELSE AddVirtualDevice(st, kind, g.slot, options)

\* one IVSHMEM_REGION; prefix is "dm:/" or "hv:/"
GenIvshmem(st, region, prefix) ==
    AddAtDeclared(st, L_ivshmem, region.vbdf, prefix \o region.name \o <<",">> \o region.size)

\* the console vuart
GenConsoleVuart(st) ==
    IF vm.console_vuart = L_PCI
    THEN AddVirtualDevice(st, L_uart, NoneV, L_vuart_idx \o <<"0">>)
    ELSE st

\* one vuart_connection of this VM; i is its enumerate index, which starts at 1
GenVuart(st, conn, i) ==
    IF conn.type = L_pci
    THEN AddAtDeclared(st, L_uart, conn.vbdf, L_vuart_idx \o Dec(i))
    ELSE st

\* one usb_dev
GenXhci(st, usb_xhci) ==
    AddVirtualDevice(st, L_xhci, NoneV, Split(usb_xhci, " ")[1])

\* one virtio input
GenInput(st, e) ==
    IF e.backend_device_file # None /\ e.id # None
    THEN AddVirtualDevice(st, L_virtio_input, NoneV, e.backend_device_file \o L_id_prefix \o e.id)
    ELSE IF e.backend_device_file # None
    THEN AddVirtualDevice(st, L_virtio_input, NoneV, e.backend_device_file)
    ELSE st

\* one virtio console; a sock backend without sock_file_path raises TypeError in basename
GenConsole(st, e) ==
    LET mask == IF e.use_type = L_Virtio_console THEN <<"@">> ELSE <<>>
        bt == e.backend_type
    IN  IF bt = L_file
        THEN AddVirtualDevice(st, L_virtio_console, NoneV, mask \o L_file_port \o Str(e.path))
        ELSE IF bt = L_tty
        THEN AddVirtualDevice(st, L_virtio_console, NoneV, mask \o L_tty_port \o Str(e.path))
        ELSE IF bt = L_sock_server \/ bt = L_sock_client
        THEN IF e.path = None THEN [st EXCEPT !.exc = IF @ = "" THEN "TypeError" ELSE @]
             ELSE AddVirtualDevice(st, L_virtio_console, NoneV,
                      L_socket \o Split(Basename(e.path), ".")[1] \o <<"=">> \o e.path
                          \o <<":">> \o RemovePrefix(bt, L_sock_))
        ELSE IF bt = L_pty \/ bt = L_stdio
        THEN AddVirtualDevice(st, L_virtio_console, NoneV, mask \o bt \o <<":">> \o bt \o L_port)
        ELSE st

\* one virtio network; without interface_name, None.split raises AttributeError
GenNetwork(st, e) ==
    IF e.interface_name = None THEN [st EXCEPT !.exc = IF @ = "" THEN "AttributeError" ELSE @]
    ELSE LET params == SplitOnce(e.interface_name, ",")
             p1 == <<L_tap \o params[1]>> \o Tail(params)
             p2 == IF e.virtio_framework = L_vhost_framework THEN Append(p1, L_vhost) ELSE p1
             p3 == Append(p2, L_mac_seed \o VmName)
         IN  AddVirtualDevice(AddInitCommand(st, L_mac_cmd), L_virtio_net, NoneV, Join(<<",">>, p3))

\* one virtio block
GenBlock(st, virtio_block) ==
    LET params == SplitOnce(virtio_block, ":")
    IN  IF Len(params) = 1
        THEN AddVirtualDevice(st, L_virtio_blk, NoneV, virtio_block)
        ELSE LET var == L_dir_ \o Basename(params[1])
                 ref == <<"$", "{">> \o var \o <<"}">>
                 s1 == AddInitCommand(st, var \o <<"=", Backtick>> \o L_mount_partition
                                              \o params[1] \o <<Backtick>>)
                 s2 == AddVirtualDevice(s1, L_virtio_blk, NoneV, PathJoin(ref, params[2]))
             IN  AddDeinitCommand(s2, L_unmount_partition \o ref)

\* the parameter of one display
DisplayParams(display_type, d) ==
    (IF display_type = L_Window
     THEN <<L_geometry \o Str(d.window_dimensions) \o <<"+">> \o Str(d.horizontal_offset)
                \o <<"+">> \o Str(d.vertical_offset)>>
     ELSE <<>>)
    \o (IF display_type = L_Full_screen
        THEN <<L_geometry_fullscreen \o Str(d.monitor_id)>>
        ELSE <<>>)

RECURSIVE GpuParams(_, _)
GpuParams(display_type, displays) ==
    IF displays = <<>> THEN <<>>
    ELSE DisplayParams(display_type, displays[1]) \o GpuParams(display_type, Tail(displays))

\* one virtio gpu
GenGpu(st, e) ==
    AddVirtualDevice(st, L_virtio_gpu, NoneV, Join(<<",">>, GpuParams(e.display_type, e.displays)))

\* one vsock
GenVsock(st, vsock) ==
    AddVirtualDevice(st, L_vhost_vsock, NoneV, L_cid \o vsock)

\* the passthrough loop drawing a slot for an entry that bdf_regex does not match
GenPassthru_DrawsForSkipped(st, passthru_device) ==
    IF ~BdfMatches(passthru_device) THEN Allocate(st, NoDevice, None)
    ELSE AddPassthruDevice(st,
                           IntBase16(SubSeq(passthru_device, 1, 2)),
                           IntBase16(SubSeq(passthru_device, 4, 5)),
                           IntBase16(SubSeq(passthru_device, 7, 7)),
                           <<>>)

\* one entry of pci_devs: skipped unless bdf_regex matches
GenPassthru(st, passthru_device) ==
    IF ~BdfMatches(passthru_device) THEN st
    ELSE AddPassthruDevice(st,
                           IntBase16(SubSeq(passthru_device, 1, 2)),
                           IntBase16(SubSeq(passthru_device, 4, 5)),
                           IntBase16(SubSeq(passthru_device, 7, 7)),
                           <<>>)

\* --rtvm, --lapic_pt, the logger settings and, lastly, the VM name
GenMisc(st) ==
    LET s1 == IF vm.vm_type = L_RTVM THEN AddPlainDmParameter(st, L_rtvm) ELSE st
        s2 == IF vm.vm_type = L_RTVM /\ vm.lapic_passthrough = L_y
              THEN AddPlainDmParameter(s1, L_lapic_pt) ELSE s1
        s3 == AddDynamicDmParameter(s2, L_add_logger_settings, L_logger_args)
    IN  AddPlainDmParameter(s3, VmName)

(* Texts of the boards and scenarios tried *)

L_VM1 ==
    <<"V", "M", "1">>

L_VM2 ==
    <<"V", "M", "2">>

L_2048 ==
    <<"2", "0", "4", "8">>

L_usb_1_2 ==
    <<"1", "-", "2">>

L_shm0 ==
    <<"s", "h", "m", "0">>

L_shm1 ==
    <<"s", "h", "m", "1">>

L_size2 ==
    <<"2">>

L_vbdf_00_05_0 ==
    <<"0", "0", ":", "0", "5", ".", "0">>

L_vbdf_00_06_0 ==
    <<"0", "0", ":", "0", "6", ".", "0">>

L_event0 ==
    <<"/", "d", "e", "v", "/", "i", "n", "p", "u", "t", "/", "e", "v", "e", "n", "t", "0">>

L_kbd ==
    <<"k", "b", "d">>

L_sock_path ==
    <<"/", "t", "m", "p", "/", "s", ".", "s", "o", "c", "k">>

L_tap0_opt ==
    <<"t", "a", "p", "0", ",", "x", "=", "1">>

L_blk_plain ==
    <<"/", "d", "e", "v", "/", "s", "d", "b">>

L_blk_pair ==
    <<"/", "d", "e", "v", "/", "s", "d", "a", "1", ":", "a", ".", "i", "m", "g">>

L_1920x1080 ==
    <<"1", "9", "2", "0", "x", "1", "0", "8", "0">>

L_0 ==
    <<"0">>

L_1 ==
    <<"1">>

L_2 ==
    <<"2">>

L_3 ==
    <<"3">>

L_9 ==
    <<"9">>

L_0x2 ==
    <<"0", "x", "2">>

L_0x4 ==
    <<"0", "x", "4">>

L_0x10 ==
    <<"0","x","1","0">>

L_pt_vga ==
    <<"0", "0", ":", "0", "2", ".", "0", " ", "V", "G", "A">>

L_pt_eth ==
    <<"0", "0", ":", "1", "f", ".", "6", " ", "E", "t", "h", "e", "r", "n", "e", "t">>

L_pt_bad ==
    <<"0", ":", "2", ".", "0">>

L_pt_unlisted ==
    <<"0", "1", ":", "0", "0", ".", "0">>

L_SCHED_BVT ==
    <<"S", "C", "H", "E", "D", "_", "B", "V", "T">>

L_legacy ==
    <<"l", "e", "g", "a", "c", "y">>

L_pt_xhci ==
    <<"0", "0", ":", "1", "4", ".", "0", " ", "U", "S", "B">>

L_pt_upper ==
    <<"0", "0", ":", "1", "F", ".", "6", " ", "E", "t", "h", "e", "r", "n", "e", "t">>

L_vbdf_00_03_0 ==
    <<"0", "0", ":", "0", "3", ".", "0">>

-----------------------------------------------------------------------------
(* main and the passes of generate_for_one_vm, one step per section or loop  *)
(* iteration                                                                 *)

\* post_vms = eval_xpath_all(scenario_etree, "//vm[load_order = 'POST_LAUNCHED_VM']")
post_vms ==
    scenario.post_vms

\* the board's cpu_id texts that no pre-launched VM has in its affinity
SosCpuTexts ==
    SelectSeq([i \in 1..Len(board.cpus) |-> board.cpus[i].cpu_id],
              LAMBDA x : ~InSeq(x, scenario.pre_cpus))

\* cpus_for_sos = sorted([int(x) for x in ... if x not in pre_all_cpus])
cpus_for_sos ==
    Sorted([i \in 1..Len(SosCpuTexts) |-> IntBase10(SosCpuTexts[i])])

\* main ends: it returns a status, or an exception leaves it
MainEnds(outcome) ==
    /\ status' = outcome
    /\ pc' = "done"
    /\ idx' = 0

\* main up to os.mkdir: the service VM test, int(service_vm_id), cpus_for_sos
MainStart ==
    /\ pc = "main"
    /\ IF scenario.service_vm_id = None /\ Len(post_vms) > 0 THEN MainEnds("return 1")
       ELSE IF scenario.service_vm_id = None THEN MainEnds("TypeError")
       ELSE IF IntBase10(scenario.service_vm_id) = BadInt
               \/ \E i \in 1..Len(SosCpuTexts) : IntBase10(SosCpuTexts[i]) = BadInt
       THEN MainEnds("ValueError")
       ELSE pc' = "mkdir" /\ UNCHANGED <<status, idx>>
    /\ UNCHANGED <<allocVars, scriptVars, inputVars, vm_i, out_dir, written, user_vm_id>>

\* os.mkdir(out_dir) and its except clauses, then post_vm_ids
Mkdir ==
    /\ pc = "mkdir"
    /\ IF out_dir = "file" \/ out_dir = "denied"
       THEN MainEnds("return 1") /\ UNCHANGED out_dir
       ELSE IF user_vm_id = 0 /\ \E i \in 1..Len(post_vms) : IntBase10(post_vms[i].id) = BadInt
       THEN MainEnds("ValueError") /\ out_dir' = "dir"
       ELSE pc' = "loop" /\ out_dir' = "dir" /\ UNCHANGED <<status, idx>>
    /\ UNCHANGED <<allocVars, scriptVars, inputVars, vm_i, written, user_vm_id>>

\* post_vm_ids
post_vm_ids ==
    IF user_vm_id = 0
    THEN {IntBase10(post_vms[i].id) : i \in 1..Len(post_vms)}
    ELSE {user_vm_id + IntBase10(scenario.service_vm_id)}

\* for post_vm in post_vms: the next VM is skipped or its pass begins; after the last, return 0
Loop ==
    /\ pc = "loop"
    /\ IF vm_i >= Len(post_vms)
       THEN MainEnds("return 0") /\ UNCHANGED <<vm, vm_i>>
       ELSE LET post_vm == post_vms[vm_i + 1]
            IN  IF IntBase10(post_vm.id) = BadInt
                THEN MainEnds("ValueError") /\ UNCHANGED <<vm, vm_i>>
                ELSE IF IntBase10(post_vm.id) \notin post_vm_ids
                THEN vm_i' = vm_i + 1 /\ UNCHANGED <<vm, pc, idx, status>>
                ELSE vm' = post_vm /\ pc' = "gen_start" /\ UNCHANGED <<vm_i, idx, status>>
    /\ UNCHANGED <<allocVars, scriptVars, board, scenario, out_dir, written, user_vm_id>>

\* a step of the pass: the script becomes st and the pass goes on at p with index i, or the
\* exception st.exc leaves generate_for_one_vm and main
Pass(st, p, i) ==
    /\ Commit(st)
    /\ IF st.exc # "" THEN MainEnds(st.exc)
       ELSE pc' = p /\ idx' = i /\ UNCHANGED status
    /\ UNCHANGED <<inputVars, vm_i, out_dir, written, user_vm_id>>

Start ==
    pc = "gen_start" /\ Pass(GenStart, "cpus", 0)

Cpus ==
    pc = "cpus" /\ Pass(GenCpus(Cur), "memory", 0)

Memory ==
    pc = "memory" /\ Pass(GenMemory(Cur), "platform", 0)

Platform ==
    pc = "platform" /\ Pass(GenPlatform(Cur), "ivshmem_dm", 0)

\* for ivshmem in ... PROVIDED_BY = 'Device Model': one more entry, or on to the next section
IvshmemDm ==
    /\ pc = "ivshmem_dm"
    /\ IF idx < Len(vm.ivshmem_dm)
       THEN Pass(GenIvshmem(Cur, vm.ivshmem_dm[idx + 1], L_dm_prefix), "ivshmem_dm", idx + 1)
       ELSE Pass(Cur, "ivshmem_hv", 0)

\* for ivshmem in ... PROVIDED_BY = 'Hypervisor': one more entry, or on to the next section
IvshmemHv ==
    /\ pc = "ivshmem_hv"
    /\ IF idx < Len(vm.ivshmem_hv)
       THEN Pass(GenIvshmem(Cur, vm.ivshmem_hv[idx + 1], L_hv_prefix), "ivshmem_hv", idx + 1)
       ELSE Pass(Cur, "console_vuart", 0)

ConsoleVuart ==
    pc = "console_vuart" /\ Pass(GenConsoleVuart(Cur), "vuart", 0)

\* for idx, conn in enumerate(..., start=1): one more entry, or on to the next section
Vuart ==
    /\ pc = "vuart"
    /\ IF idx < Len(vm.vuart_connections)
       THEN Pass(GenVuart(Cur, vm.vuart_connections[idx + 1], idx + 1), "vuart", idx + 1)
       ELSE Pass(Cur, "xhci", 0)

\* for usb_xhci in ...: one more entry, or on to the next section
Xhci ==
    /\ pc = "xhci"
    /\ IF idx < Len(vm.usb_xhci)
       THEN Pass(GenXhci(Cur, vm.usb_xhci[idx + 1]), "xhci", idx + 1)
       ELSE Pass(Cur, "input", 0)

\* for virtio_input_etree in ...: one more entry, or on to the next section
Input ==
    /\ pc = "input"
    /\ IF idx < Len(vm.virtio_input)
       THEN Pass(GenInput(Cur, vm.virtio_input[idx + 1]), "input", idx + 1)
       ELSE Pass(Cur, "console", 0)

\* for virtio_console_etree in ...: one more entry, or on to the next section
Console ==
    /\ pc = "console"
    /\ IF idx < Len(vm.virtio_console)
       THEN Pass(GenConsole(Cur, vm.virtio_console[idx + 1]), "console", idx + 1)
       ELSE Pass(Cur, "network", 0)

\* for virtio_network_etree in ...: one more entry, or on to the next section
Network ==
    /\ pc = "network"
    /\ IF idx < Len(vm.virtio_network)
       THEN Pass(GenNetwork(Cur, vm.virtio_network[idx + 1]), "network", idx + 1)
       ELSE Pass(Cur, "block", 0)

\* for virtio_block in ...: one more entry, or on to the next section
Block ==
    /\ pc = "block"
    /\ IF idx < Len(vm.virtio_block)
       THEN Pass(GenBlock(Cur, vm.virtio_block[idx + 1]), "block", idx + 1)
       ELSE Pass(Cur, "gpu", 0)

\* for gpu_etree in ...: one more entry, or on to the next section
Gpu ==
    /\ pc = "gpu"
    /\ IF idx < Len(vm.virtio_gpu)
       THEN Pass(GenGpu(Cur, vm.virtio_gpu[idx + 1]), "gpu", idx + 1)
       ELSE Pass(Cur, "vsock", 0)

\* for vsock in ...: one more entry, or on to the next section
Vsock ==
    /\ pc = "vsock"
    /\ IF idx < Len(vm.vsock)
       THEN Pass(GenVsock(Cur, vm.vsock[idx + 1]), "vsock", idx + 1)
       ELSE Pass(Cur, "passthru", 0)

\* for passthru_device in ...: one more entry, or on to the next section
Passthru ==
    /\ pc = "passthru"
    /\ IF idx < Len(vm.pci_devs)
       THEN Pass(GenPassthru(Cur, vm.pci_devs[idx + 1]), "passthru", idx + 1)
       ELSE Pass(Cur, "misc", 0)

\* the last section; generate_for_one_vm returns the script
Misc ==
    pc = "misc" /\ Pass(GenMisc(Cur), "write", 0)

\* script.add_sos_cpu_dict(...) and script.write_to_file(...)
Write ==
    /\ pc = "write"
    /\ written' = Append(written,
          [index |-> vm_i + 1,
           id |-> IntBase10(vm.id) - IntBase10(scenario.service_vm_id),
           vm_name |-> VmName,
           cpu_dict |-> [i \in 1..Len(cpus_for_sos) |->
                            <<cpus_for_sos[i], cpu_id_to_lapic_id(Dec(cpus_for_sos[i]))>>],
           vm_descriptors |-> vm_descriptors,
           init_commands |-> init_commands,
           dm_parameters |-> dm_parameters,
           deinit_commands |-> deinit_commands])
    /\ vm_i' = vm_i + 1
    /\ pc' = "loop"
    /\ UNCHANGED <<allocVars, scriptVars, inputVars, idx, out_dir, status, user_vm_id>>

MainNext ==
    \/ MainStart
    \/ Mkdir
    \/ Loop
    \/ Start
    \/ Cpus
    \/ Memory
    \/ Platform
    \/ IvshmemDm
    \/ IvshmemHv
    \/ ConsoleVuart
    \/ Vuart
    \/ Xhci
    \/ Input
    \/ Console
    \/ Network
    \/ Block
    \/ Gpu
    \/ Vsock
    \/ Passthru
    \/ Misc
    \/ Write

-----------------------------------------------------------------------------
(* Specification SpecMain: main on the boards, scenarios, output paths and   *)
(* user_vm_id values below                                                   *)

\* the number of usb devices of the scenarios that use up the pool
ManyDevices ==
    27

\* threads 0..3 with the apic ids 0x0, 0x2, 0x4, 0x10
DistinctApicCpus ==
    << [cpu_id |-> L_0, apic_id |-> L_0x0], [cpu_id |-> L_1, apic_id |-> L_0x2],
       [cpu_id |-> L_2, apic_id |-> L_0x4], [cpu_id |-> L_3, apic_id |-> L_0x10] >>

\* threads 0..3 of which 1 and 3 have the same apic id
SharedApicCpus ==
    << [cpu_id |-> L_0, apic_id |-> L_0x0], [cpu_id |-> L_1, apic_id |-> L_0x2],
       [cpu_id |-> L_2, apic_id |-> L_0x4], [cpu_id |-> L_3, apic_id |-> L_0x2] >>

BoardInputs ==
    {[cpus |-> c, pci |-> PciBoard] : c \in {DistinctApicCpus, SharedApicCpus}}

\* name, vm_type and os_type of the VMs tried
IdentityInputs ==
    { [name |-> L_VM1, vm_type |-> L_STANDARD_VM, os_type |-> L_Windows_OS],
      [name |-> None, vm_type |-> None, os_type |-> None],
      [name |-> L_VM1, vm_type |-> L_RTVM, os_type |-> None],
      [name |-> L_rtvm, vm_type |-> L_RTVM, os_type |-> None] }

\* the cpu affinities tried: none, two CPUs, CPUs repeated and one the board lacks, only
\* a CPU the board lacks, and the first CPU (apic id 0) with another
AffinityInputs ==
    { <<>>, <<L_3, L_1>>, <<L_3, L_1, L_1, L_9>>, <<L_9>>, <<L_2, L_0>> }

\* n usb devices
Usb(n) ==
    [i \in 1..n |-> L_usb_1_2]

\* one device of every kind
OneOfEach ==
    [BaseVm EXCEPT
        !.memory = L_2048, !.vbootloader = L_y, !.vuart0 = L_y, !.console_vuart = L_PCI,
        !.lapic_passthrough = L_y, !.PTM = L_y,
        !.ivshmem_dm = << [vbdf |-> L_vbdf_00_05_0, name |-> L_shm0, size |-> L_size2] >>,
        !.ivshmem_hv = << [vbdf |-> None, name |-> L_shm1, size |-> L_size2] >>,
        !.vuart_connections = << [type |-> L_legacy, vbdf |-> None],
                                 [type |-> L_pci, vbdf |-> L_vbdf_00_06_0] >>,
        !.usb_xhci = Usb(1),
        !.virtio_input = << [backend_device_file |-> L_event0, id |-> L_kbd],
                            [backend_device_file |-> L_event0, id |-> None],
                            [backend_device_file |-> None, id |-> L_kbd] >>,
        !.virtio_console = << [use_type |-> L_Virtio_console, backend_type |-> L_pty, path |-> None],
                              [use_type |-> None, backend_type |-> L_sock_server, path |-> L_sock_path] >>,
        !.virtio_network = << [virtio_framework |-> L_vhost_framework, interface_name |-> L_tap0_opt] >>,
        !.virtio_block = << L_blk_plain, L_blk_pair >>,
        !.virtio_gpu = << [display_type |-> L_Window,
                           displays |-> << [window_dimensions |-> L_1920x1080, horizontal_offset |-> L_0,
                                            vertical_offset |-> L_0, monitor_id |-> None] >>] >>,
        !.vsock = << L_3 >>,
        !.pci_devs = << L_pt_bad, L_pt_eth, L_pt_vga, L_pt_unlisted, L_pt_xhci >>]

\* the device sections of the VMs tried: none; one of every kind; the pool used up by usb
\* devices and then an Ethernet passthrough, a VGA passthrough or a virtio block device; and
\* one usb device more than the pool holds; passthrough devices alone, without PTM;
\* and a console vuart with a shared-memory region and a vuart connection at declared slots
DeviceInputs2 ==
    { [BaseVm EXCEPT !.memory = L_2048],
      OneOfEach,
      [BaseVm EXCEPT !.usb_xhci = Usb(ManyDevices), !.pci_devs = << L_pt_eth >>],
      [BaseVm EXCEPT !.usb_xhci = Usb(ManyDevices), !.pci_devs = << L_pt_vga >>],
      [BaseVm EXCEPT !.usb_xhci = Usb(ManyDevices), !.virtio_block = << L_blk_plain >>],
      [BaseVm EXCEPT !.usb_xhci = Usb(ManyDevices + 1)],
      [BaseVm EXCEPT !.pci_devs = << L_pt_xhci, L_pt_bad, L_pt_eth, L_pt_upper, L_pt_unlisted >>],
      [BaseVm EXCEPT !.console_vuart = L_PCI,
                     !.ivshmem_dm = << [vbdf |-> L_vbdf_00_05_0, name |-> L_shm0, size |-> L_size2] >>,
                     !.vuart_connections = << [type |-> L_pci, vbdf |-> L_vbdf_00_03_0] >>,
                     !.usb_xhci = Usb(2)] }

WithIdentity(v, n) ==
    [v EXCEPT !.name = n.name, !.vm_type = n.vm_type, !.os_type = n.os_type]

\* the first post-launched VM of the scenarios tried
VmInputs ==
    {WithIdentity([BaseVm EXCEPT !.cpu_affinity = a], n) : a \in AffinityInputs, n \in IdentityInputs}
    \cup {WithIdentity([d EXCEPT !.cpu_affinity = <<L_3, L_1>>], n) : d \in DeviceInputs2, n \in IdentityInputs}

\* the second post-launched VM, where there is one
SecondVm ==
    [BaseVm EXCEPT !.id = L_2, !.name = L_VM2, !.memory = L_2048]

ScenarioInputs ==
    { [service_vm_id |-> s, service_vm_name |-> None, scheduler |-> L_SCHED_BVT,
       pre_cpus |-> << L_0 >>, post_vms |-> p] :
         s \in {None, L_0},
         p \in {<<>>} \cup {<<v>> : v \in VmInputs} \cup {<<v, SecondVm>> : v \in VmInputs} }

MainInit ==
    /\ ScriptIs(NewScript)
    /\ board \in BoardInputs
    /\ scenario \in ScenarioInputs
    /\ vm = BaseVm
    /\ pc = "main"
    /\ idx = 0
    /\ vm_i = 0
    /\ out_dir \in {"absent", "dir", "file", "denied"}
    /\ written = <<>>
    /\ status = "running"
    /\ user_vm_id \in {0, 2}

SpecMain ==
    MainInit /\ [][MainNext]_vars

-----------------------------------------------------------------------------
(* Claims about the allocator, checked under Spec *)

\* the slots 0, 1, 2 and 31
ReservedSlots ==
    {0, 1, 2, 31}

\* C1: a pool-drawing get_virtual_bdf never returns a slot that an earlier pool-drawing
\* call returned or that an earlier remove_virtual_bdf was called with; in particular
\* no two pool-drawing calls return the same slot.
C1_NoSlotReissued ==
    /\ reissued = {}
    /\ \A i, j \in 1..Len(issued) : i # j => issued[i] # issued[j]
    /\ ret.op = "pool" => ret.slot \notin released

\* C1's case: slot 5 was released while free, and the third pool-drawing call skipped it
C1_Witness ==
    /\ ret.op = "pool"
    /\ 5 \in released
    /\ issued = <<3, 4, 6>>

\* C2: a fresh allocator's pool is exactly 3..30, each pool-drawing call returns the lowest
\* free slot, and with no releases 28 successive calls succeed and return 3, 4, ..., 30.
C2_PoolIs3Through30 ==
    /\ ret.op = "none" => free_slots = InitFreeSlots_Through30
    /\ released = {} => \A k \in 1..Len(issued) : issued[k] = k + 2
    /\ (released = {} /\ ret.op = "raise") => Len(issued) >= 28

\* C3: a get_virtual_bdf call for a device of class 0x030000, or with options carrying
\* the igd marker, returns slot 2 in every allocator state and leaves the pool unchanged.
C3_GpuShortcut ==
    (/\ ret.op \in {"gpu", "pool", "raise"}
     /\ \/ ret.device = DeviceNode(L_0x030000)
        \/ ret.options = L_igd)
    => (ret.slot = 2 /\ free_slots = ret.before)

\* C3's case: the call for a VGA controller is repeated on an empty pool
C3_Witness ==
    /\ ret.device = DeviceNode(L_0x030000)
    /\ ret.repeat
    /\ ret.slot = 2
    /\ ret.before = <<>>
    /\ Len(issued) = 27

\* C4: no pool-drawing get_virtual_bdf returns slot 0, 1, 2 or 31, and those slots are
\* never members of the free pool.
C4_ReservedNeverDrawn ==
    /\ Range(free_slots) \cap ReservedSlots = {}
    /\ Range(issued) \cap ReservedSlots = {}
    /\ ret.op = "pool" => ret.slot \notin ReservedSlots

\* C4's case: the whole pool was drawn, and remove_virtual_bdf was called with reserved slots
C4_Witness ==
    /\ ret.op = "pool"
    /\ free_slots = <<>>
    /\ Len(issued) = 27
    /\ released = {2, 31}

-----------------------------------------------------------------------------
(* Claims about the script, checked under SpecScript *)

\* the parameter add_passthru_device adds for interrupt storm monitoring
StormText ==
    DynamicText(L_add_interrupt_storm_monitor, L_storm_args)

\* the parameters a returned add_passthru_device call appended
AppendedBy(e) ==
    {dm_parameters[i] : i \in (e.before + 1)..e.after}

\* C5 (as stated): every passthrough device whose resolved slot is not 2 has the
\* interrupt-storm-monitor parameter immediately after its own add_passthrough_device
\* parameter in the parameter list, and a device whose resolved slot is 2 adds none.
C5_StormFollowsEveryDevice ==
    \A k \in 1..Len(pt_log) :
        /\ pt_log[k].slot # 2 =>
              \E i \in 1..(Len(dm_parameters) - 1) :
                  dm_parameters[i] = pt_log[k].param /\ dm_parameters[i + 1] = StormText
        /\ pt_log[k].slot = 2 => StormText \notin AppendedBy(pt_log[k])

\* C5 (amended): the interrupt-storm-monitor parameter occurs at most once in the
\* parameter list; the first passthrough device whose resolved slot is not 2 appends its
\* own parameter and then the monitor parameter, every later such device appends only its
\* own parameter (the monitor parameter is already present), and a device whose resolved
\* slot is 2 adds no monitor parameter.
C5_StormFollowsFirstDevice ==
    /\ Cardinality({i \in 1..Len(dm_parameters) : dm_parameters[i] = StormText}) <= 1
    /\ \A k \in 1..Len(pt_log) :
          LET e == pt_log[k]
              first == \A j \in 1..(k - 1) : pt_log[j].slot = 2
          IN  /\ e.slot = 2 => StormText \notin AppendedBy(e)
              /\ (e.slot # 2 /\ first) =>
                    /\ e.after = e.before + 2
                    /\ dm_parameters[e.before + 1] = e.param
                    /\ dm_parameters[e.before + 2] = StormText
              /\ (e.slot # 2 /\ ~first) =>
                    /\ e.after = e.before + 1
                    /\ dm_parameters[e.before + 1] = e.param
                    /\ InSeq(StormText, SubSeq(dm_parameters, 1, e.before))

\* C5's case: a device at slot 3, then the GPU at slot 2, then a device at slot 4
C5_Witness ==
    /\ Len(pt_log) = 3
    /\ pt_log[1].slot = 3
    /\ pt_log[2].slot = 2
    /\ pt_log[3].slot = 4
    /\ dm_parameters = <<pt_log[1].param, StormText, pt_log[2].param, pt_log[3].param>>

\* the index of the first occurrence of x in s
FirstIndex(x, s) ==
    CHOOSE i \in 1..Len(s) : s[i] = x /\ \A j \in 1..(i - 1) : s[j] # x

\* list holds every text of log exactly once, in the order of the texts' first occurrences in log
InFirstInsertionOrder(list, log) ==
    /\ Range(list) = Range(log)
    /\ \A i, j \in 1..Len(list) : i # j => list[i] # list[j]
    /\ \A i, j \in 1..Len(list) : i < j => FirstIndex(list[i], log) < FirstIndex(list[j], log)

\* the sequence add_* call `last` was made on
ListOf(name) ==
    IF name = "init" THEN init_commands
    ELSE IF name = "deinit" THEN deinit_commands
    ELSE dm_parameters

\* C7: each of init commands, parameters and deinit commands contains every added text
\* exactly once, in the order of its first insertion; adding a text already present
\* leaves the sequence unchanged.
C7_AppendIfAbsent ==
    /\ InFirstInsertionOrder(init_commands, added.init)
    /\ InFirstInsertionOrder(dm_parameters, added.dm)
    /\ InFirstInsertionOrder(deinit_commands, added.deinit)
    /\ (added.last.list # "none" /\ InSeq(added.last.text, added.last.before))
          => ListOf(added.last.list) = added.last.before

\* C7's case: a parameter is added, then another, then the first again (as "add_cpus 1"
\* and as "add_cpus 1 ", which format to the same text)
C7_Witness ==
    /\ Len(added.dm) = 3
    /\ added.dm[1] = DynamicText(L_add_cpus, <<"1">>)
    /\ added.dm[3] = added.dm[1]
    /\ added.dm[2] = L_windows
    /\ dm_parameters = <<added.dm[1], L_windows>>
    /\ InSeq(added.last.text, added.last.before)


\* the last entry of a non-empty sequence
Last(s) ==
    s[Len(s)]

\* C6: when generate_for_one_vm has completed, the last element of the device-model
\* parameter list is the VM's name.
C6_NameIsLast ==
    pc = "write" => dm_parameters # <<>> /\ Last(dm_parameters) = VmName

\* the output directory cannot be created
CannotCreateOutDir ==
    out_dir = "file" \/ out_dir = "denied"

\* C8: main returns a non-zero status when there is no service VM while a post-launched
\* VM exists or when the output directory cannot be created, and returns 0 in every other
\* case, a scenario with neither a service VM nor post-launched VMs included.
C8_ExitStatus ==
    pc = "done" =>
        status = IF (scenario.service_vm_id = None /\ Len(post_vms) > 0) \/ CannotCreateOutDir
                 THEN "return 1" ELSE "return 0"

\* the add_cpus parameters of the list
AddCpusParams ==
    SelectSeq(dm_parameters, LAMBDA p : StartsWith(p, <<Backtick>> \o L_add_cpus \o <<" ">>))

\* the numbers an add_cpus parameter lists, read back from its text
Listed(p) ==
    LET words == Split(SubSeq(p, CmdWidth + 3, Len(p) - 1), " ")
    IN  [i \in 1..Len(words) |-> IntBase10(words[i])]

\* the CPUs of the VM's affinity that the board defines
ResolvedCpus ==
    {c \in Range(vm.cpu_affinity) : c # <<>> /\ \E i \in 1..Len(board.cpus) : board.cpus[i].cpu_id = c}

\* the controller ids of the CPUs the board defines in the VM's affinity
ResolvedIds ==
    {cpu_id_to_lapic_id(c) : c \in ResolvedCpus}

\* the number of entries of l equal to v
Count(l, v) ==
    Cardinality({i \in 1..Len(l) : l[i] = v})

\* the pass was not aborted in its CPU section: an exception, if any, came after the
\* first device of the platform section
CpuSectionCompletes ==
    ~(pc = "done" /\ exc # "" /\ dev_log = <<>>)

\* C9 as stated: add_cpus lists exactly the controller ids of the affinity CPUs the board
\* defines, ascending and without duplicates; undefined CPUs are left out without
\* aborting, and there is no add_cpus parameter when no CPU resolves.
C9_AscendingWithoutDuplicates ==
    /\ CpuSectionCompletes
    /\ pc = "memory" =>
          IF ResolvedCpus = {} THEN AddCpusParams = <<>>
          ELSE /\ Len(AddCpusParams) = 1
               /\ LET l == Listed(AddCpusParams[1])
                  IN  /\ Range(l) = ResolvedIds
                      /\ \A i, j \in 1..Len(l) : i < j => l[i] < l[j]

\* C9, amended: add_cpus lists, in ascending numeric order, one controller id for each
\* distinct affinity CPU the board defines, so a controller id shared by k of these CPUs
\* is listed k times; undefined CPUs are left out without aborting, and there is no
\* add_cpus parameter when no CPU resolves.
C9_AscendingOnePerCpu ==
    /\ CpuSectionCompletes
    /\ pc = "memory" =>
          IF ResolvedCpus = {} THEN AddCpusParams = <<>>
          ELSE /\ Len(AddCpusParams) = 1
               /\ LET l == Listed(AddCpusParams[1])
                  IN  /\ Range(l) = ResolvedIds
                      /\ \A i, j \in 1..Len(l) : i < j => l[i] <= l[j]
                      /\ \A v \in ResolvedIds :
                            Count(l, v) = Cardinality({c \in ResolvedCpus : cpu_id_to_lapic_id(c) = v})

\* C9's case: the affinity names CPU 1 twice, CPU 3 and the undefined CPU 9 on the board
\* where CPUs 1 and 3 share controller id 2; add_cpus lists 2 twice
C9_Witness ==
    /\ pc = "memory"
    /\ InSeq(L_9, vm.cpu_affinity)
    /\ Cardinality(ResolvedCpus) = 2
    /\ Len(AddCpusParams) = 1
    /\ Listed(AddCpusParams[1]) = <<2, 2>>

\* a get_virtual_bdf call without the GPU shortcut found the pool empty
DrewFromEmptyPool ==
    ret.op \in {"pool", "raise"} /\ ret.before = <<>>

RuleApplies(r, class_code) ==
    StartsWith(class_code, r.prefix) /\ vm[r.element] = r.text

\* the tokens of the rules that apply, in table order (each rule of the table has one token)
ExpectedTokens(class_code) ==
    LET hit == SelectSeq(passthru_device_options, LAMBDA r : RuleApplies(r, class_code))
    IN  [i \in 1..Len(hit) |-> hit[i].tokens[1]]

\* the options a passthrough parameter carries, read back from its text: the third word
\* after the command, none when there are two words only
ParamOptions(p) ==
    LET words == Split(SubSeq(p, CmdWidth + 3, Len(p) - 1), " ")
    IN  IF Len(words) >= 3 THEN Split(words[3], ",") ELSE <<>>

\* the pass of the VM `vm` has made the calls of pt_log (the script of the VM before it is
\* replaced when the pass starts)
InPassOf ==
    pc # "gen_start"

\* C11: the options inferred for a passthrough device are the tokens of every rule whose
\* prefix is a prefix of the board node's class code and whose predicate holds for the
\* VM, in table order, and the device's parameter in the list carries them; they are
\* empty when the board has no such node or no rule applies; an Ethernet-class device of
\* a VM with PTM enabled carries enable_ptm.
C11_InferredOptions ==
    InPassOf =>
        \A k \in 1..Len(pt_log) :
            LET e == pt_log[k]
                node == BoardDevice(e.bus, e.dev, e.fun)
                tokens == IF node.exists THEN ExpectedTokens(node.class) ELSE <<>>
            IN  /\ e.options = Join(<<",">>, tokens)
                /\ InSeq(e.param, dm_parameters)
                /\ ParamOptions(e.param) = tokens
                /\ (~node.exists \/ \A i \in 1..Len(passthru_device_options) :
                                       ~RuleApplies(passthru_device_options[i], node.class))
                      => e.options = <<>>
                /\ (node.exists /\ StartsWith(node.class, L_0x0200) /\ vm.PTM = L_y)
                      => Contains(L_enable_ptm, e.param)

\* C11's case: a Windows VM with PTM enabled passes through the Ethernet controller, the
\* VGA controller, a device the board does not list and the xHCI controller
C11_Witness ==
    /\ pc = "misc"
    /\ Len(pt_log) = 4
    /\ pt_log[1].options = L_enable_ptm
    /\ ParamOptions(pt_log[1].param) = <<L_enable_ptm>>
    /\ pt_log[2].options = <<>>
    /\ BoardDevice(pt_log[2].bus, pt_log[2].dev, pt_log[2].fun).exists
    /\ pt_log[3].options = <<>>
    /\ ~BoardDevice(pt_log[3].bus, pt_log[3].dev, pt_log[3].fun).exists
    /\ pt_log[4].options = L_d3hot_reset

\* the step processes an entry of pci_devs that bdf_regex does not match
SkipsEntry ==
    /\ pc = "passthru"
    /\ idx < Len(vm.pci_devs)
    /\ ~BdfMatches(vm.pci_devs[idx + 1])

\* the entries of pci_devs that bdf_regex matches, in their order, as <<bus, dev, fun>>
MatchingEntries ==
    LET ok == SelectSeq(vm.pci_devs, BdfMatches)
    IN  [i \in 1..Len(ok) |-> <<IntBase16(SubSeq(ok[i], 1, 2)), IntBase16(SubSeq(ok[i], 4, 5)),
                                IntBase16(SubSeq(ok[i], 7, 7))>>]

\* the devices add_passthru_device was called for, in call order
PassedThrough ==
    [k \in 1..Len(pt_log) |-> <<pt_log[k].bus, pt_log[k].dev, pt_log[k].fun>>]

\* C12: a passthrough entry that does not match the bus:device.function pattern is skipped
\* with no effect (the step changes neither the allocator nor the script nor what is
\* written, and the loop goes on with the next entry), and the other entries of the VM are
\* passed through in their order: when the loop is over, the add_passthru_device calls
\* made are those of the matching entries, in order.
C12_MalformedEntrySkipped ==
    /\ [][SkipsEntry => /\ UNCHANGED <<allocVars, scriptVars, written, out_dir, status>>
                        /\ pc' = "passthru"
                        /\ idx' = idx + 1]_vars
    /\ [](pc = "misc" => PassedThrough = MatchingEntries)

\* C12's case: the second and fourth of five entries do not match; the other three were
\* passed through at the slots 3, 4 and 5
C12_Witness ==
    /\ pc = "misc"
    /\ Len(vm.pci_devs) = 5
    /\ ~BdfMatches(vm.pci_devs[2])
    /\ ~BdfMatches(vm.pci_devs[4])
    /\ Len(pt_log) = 3
    /\ issued = <<3, 4, 5>>

\* the call emitted a device at a slot its caller declared (an int from get_slot_by_vbdf;
\* the host bridge and the LPC bridge are given the strings "0:0" and "1:0")
AtDeclaredSlot(c) ==
    c.ok /\ c.declared.t = "int"

\* C13: within one VM's pass, every device at a caller-declared slot (shared-memory
\* regions, PCI vuart connections) is emitted, and its slot is out of the free pool,
\* before the first device that draws its slot from the pool.
C13_DeclaredBeforePool ==
    /\ \A i, j \in 1..Len(dev_log) :
          (i < j /\ dev_log[i].drew) => ~AtDeclaredSlot(dev_log[j])
    /\ \A j \in 1..Len(dev_log) :
          AtDeclaredSlot(dev_log[j]) => ~InSeq(dev_log[j].declared.n, free_slots)

\* the device parameters of the list: add_virtual_device and add_passthrough_device
DeviceParams ==
    SelectSeq(dm_parameters,
              LAMBDA p : \/ StartsWith(p, <<Backtick>> \o L_add_virtual_device \o <<" ">>)
                         \/ StartsWith(p, <<Backtick>> \o L_add_passthrough_device \o <<" ">>))

\* the slot a device parameter carries: the first word after the command
SlotOf(p) ==
    Split(SubSeq(p, CmdWidth + 3, Len(p) - 1), " ")[1]

\* the vbdf texts the scenario declares for the VM: those of its shared-memory regions and
\* of its pci vuart connections
DeclaredVbdfs ==
    LET conns == SelectSeq(vm.vuart_connections, LAMBDA c : c.type = L_pci)
        all == [i \in 1..Len(vm.ivshmem_dm) |-> vm.ivshmem_dm[i].vbdf]
               \o [i \in 1..Len(vm.ivshmem_hv) |-> vm.ivshmem_hv[i].vbdf]
               \o [i \in 1..Len(conns) |-> conns[i].vbdf]
    IN  SelectSeq(all, LAMBDA v : v # None)

\* the declared slots are pairwise distinct
DeclaredSlotsDistinct ==
    \A i, j \in 1..Len(DeclaredVbdfs) :
        i # j => get_slot_by_vbdf(DeclaredVbdfs[i]).slot # get_slot_by_vbdf(DeclaredVbdfs[j]).slot

\* C14: in the parameter list produced by one VM's pass, no two device parameters
\* (virtual or passthrough) carry the same slot, whenever the slots the scenario declares
\* are pairwise distinct.
C14_NoSlotTwice ==
    (pc = "write" /\ DeclaredSlotsDistinct) =>
        \A i, j \in 1..Len(DeviceParams) :
            i # j => SlotOf(DeviceParams[i]) # SlotOf(DeviceParams[j])
=============================================================================
